---- MODULE Spec2Model ----
(***************************************************************************)
(* Model of the application core of rusty-shooter (src/src/main.rs):       *)
(* the fixed-timestep loop Game::run, the per-step event routing           *)
(* (process_input_event, process_dispatched_event, process_ui_event) and   *)
(* the session commands (start_new_game, save_game, load_game, quit).      *)
(*                                                                         *)
(* Time is counted in integer ticks; one fixed timestep is Delta ticks and *)
(* one target frame period is Frame ticks.  Arithmetic is exact (the f32 / *)
(* f64 rounding of 1/60 is not represented).                               *)
(***************************************************************************)
EXTENDS Integers, Sequences, FiniteSets, TLC

\* ---------------------------------------------------------------- bounds
MaxClock == 4      \* no new loop iteration starts after this wall-clock tick
MaxWork == 4       \* largest wall-clock cost of one update_statistics+render
MaxBatch == 2      \* most OS events returned by one poll_events call
MaxScenes == 2     \* most scenes the engine holds (caps Level::new)

\* ------------------------------------------------------ program constants
Delta == 2         \* fixed_timestep = 1 / fixed_fps, in ticks
Frame == 2         \* desired_frame_time = 1 / value, in ticks

\* ------------------------------------------------------------ vocabularies
\* winit events as process_input_event distinguishes them.  "Device" stands
\* for every Event that is not Event::WindowEvent.
OSEvents == {"Close", "EscDown", "EscUp", "Key", "Mouse", "Device"}
WindowEvents == OSEvents \ {"Device"}

Buttons == {"btn_new_game", "btn_save_game", "btn_load_game", "btn_quit_game"}
Sources == Buttons \cup {"other"}

\* UI events the UI layer can emit: a Click of any source, and one event of
\* another kind whose source is a command button.
UIEvents == [kind : {"Click"}, source : Sources]
            \cup {[kind |-> "Other", source |-> "btn_new_game"]}

SaveFaults == {"none", "engine", "level", "txt_create", "txt_write", "bin_create", "bin_write"}
LoadFaults == {"none", "read", "engine", "level"}

Max(a, b) == IF a >= b THEN a ELSE b

RECURSIVE SeqsUpTo(_, _)
SeqsUpTo(S, n) ==
    IF n = 0 THEN {<<>>}
    ELSE LET shorter == SeqsUpTo(S, n - 1)
         IN shorter \cup {Append(s, e) : s \in {t \in shorter : Len(t) = n - 1}, e \in S}

VARIABLES
    game,        \* the Game struct (plus live/peak: instrumentation of Level instances)
    game_time,   \* GameTime {elapsed, delta} local of run()
    dt,          \* local dt of run()
    now,         \* wall clock, ticks since run() took `clock`
    sample,      \* the value clock.elapsed() returned at the top of the current pass
    events,      \* local VecDeque `events` of run()
    ui_events,   \* the UI's queue behind poll_ui_event()
    disk,        \* the two artifacts save.txt and save.bin
    pc,          \* position inside run()
    obs,         \* counters of what happened: updates, presses since `base`
                 \* was set, and per pass the backlog sampled, the updates and
                 \* the renders; stopUpdates / stopRenders count the updates and
                 \* renders that ran with the stop flag raised
    last         \* description of the most recent operation

vars == <<game, game_time, dt, now, sample, events, ui_events, disk, pc, obs, last>>

\* The description of an operation; every action overwrites it.
NoLast == [op |-> "init", ev |-> "-", consumed |-> FALSE, hadLevel |-> FALSE,
           hadPlayer |-> FALSE, seen |-> <<>>, src |-> "-", kind |-> "-",
           menuHandled |-> FALSE, handled |-> FALSE, fired |-> <<>>,
           stage |-> "-", levelPre |-> "-", menuPre |-> FALSE, engine0 |-> 0,
           delta |-> 0, work |-> 0, sleep |-> 0]

\* ======================================================== Game's methods
\* Every method is an operator from the Game record to the Game record.

set_menu_visible(g, visible) == [g EXCEPT !.menu_visible = visible]

is_menu_visible(g) == g.menu_visible

\* Level::destroy(engine): the level removes its scene from the engine.
level_destroy(g) ==
    [g EXCEPT !.engine = Max(@ - 1, 0), !.live = @ - 1]

destroy_level(g) ==
    IF g.level = "Some"
    THEN level_destroy([g EXCEPT !.level = "None"])
    ELSE g

\* Level::new(engine): a new Level instance that adds its scene to the engine.
level_new(g) ==
    [g EXCEPT !.level = "Some", !.engine = @ + 1,
              !.live = @ + 1, !.peak = Max(@, g.live + 1)]

start_new_game_nodestroy(g) ==
    set_menu_visible(level_new(g), FALSE)

start_new_game(g) ==
    set_menu_visible(level_new(destroy_level(g)), FALSE)

\* ------------------------------------------------------------ save_game
\* The tree the Visitor holds once both regions have been visited.
visitor_tree(g) == [engine |-> g.engine, level |-> g.level]

\* The tree of a file that holds none.
NoTree == [engine |-> 0, level |-> "None"]

save_game_eager(g, d, fault) ==
    IF fault = "engine"
    THEN [disk |-> d, ok |-> FALSE, panic |-> FALSE]
    ELSE IF fault = "level"
    THEN [disk |-> [d EXCEPT !.txt = "partial"], ok |-> FALSE, panic |-> FALSE]
    ELSE IF fault = "txt_write"
    THEN [disk |-> [d EXCEPT !.txt = "partial"], ok |-> FALSE, panic |-> TRUE]
    ELSE LET d1 == IF fault = "txt_create" THEN d ELSE [d EXCEPT !.txt = "written"]
         IN IF fault = "bin_create"
            THEN [disk |-> d1, ok |-> FALSE, panic |-> FALSE]
            ELSE IF fault = "bin_write"
            THEN [disk |-> [d1 EXCEPT !.bin = "corrupt", !.tree = NoTree],
                  ok |-> FALSE, panic |-> FALSE]
            ELSE [disk |-> [d1 EXCEPT !.bin = "valid", !.tree = visitor_tree(g)],
                  ok |-> TRUE, panic |-> FALSE]

\* save_game under a fault: which step fails, if any.  The result is the new
\* disk, the VisitResult (ok) and whether the thread panicked (the unwrap of
\* write_all on save.txt).
save_game(g, d, fault) ==
    IF fault \in {"engine", "level"}
    THEN [disk |-> d, ok |-> FALSE, panic |-> FALSE]
    ELSE IF fault = "txt_write"
    THEN [disk |-> [d EXCEPT !.txt = "partial"], ok |-> FALSE, panic |-> TRUE]
    ELSE LET d1 == IF fault = "txt_create" THEN d ELSE [d EXCEPT !.txt = "written"]
         IN IF fault = "bin_create"
            THEN [disk |-> d1, ok |-> FALSE, panic |-> FALSE]
            ELSE IF fault = "bin_write"
            THEN [disk |-> [d1 EXCEPT !.bin = "corrupt", !.tree = NoTree],
                  ok |-> FALSE, panic |-> FALSE]
            ELSE [disk |-> [d1 EXCEPT !.bin = "valid", !.tree = visitor_tree(g)],
                  ok |-> TRUE, panic |-> FALSE]

\* ------------------------------------------------------------ load_game
\* Visitor::load_binary succeeds on a well-formed file that can be read.
load_binary_ok(d, fault) == d.bin = "valid" /\ fault # "read"

\* Engine::visit in read mode: the engine state becomes the saved one.
engine_visit_read(g, tree) == [g EXCEPT !.engine = tree.engine]

\* Option<Level>::visit in read mode: a saved level becomes a new Level instance.
level_visit_read(g, tree) ==
    IF tree.level = "Some"
    THEN [g EXCEPT !.level = "Some", !.live = @ + 1, !.peak = Max(@, g.live + 1)]
    ELSE g

\* The result is the new Game and the stage reached: "read", "engine" and
\* "level" name the step that failed, "ok" is a complete load.
load_game_destroy_first(g, d, fault) ==
    LET g1 == destroy_level(g)
    IN IF ~load_binary_ok(d, fault)
       THEN [game |-> g1, stage |-> "read", engine0 |-> g1.engine]
       ELSE IF fault = "engine"
       THEN [game |-> g1, stage |-> "engine", engine0 |-> g1.engine]
       ELSE LET g2 == engine_visit_read(g1, d.tree)
            IN IF fault = "level"
               THEN [game |-> g2, stage |-> "level", engine0 |-> g1.engine]
               ELSE [game |-> set_menu_visible(level_visit_read(g2, d.tree), FALSE),
                     stage |-> "ok", engine0 |-> g1.engine]

load_game_hide_first(g, d, fault) ==
    LET h == set_menu_visible(g, FALSE)
    IN IF ~load_binary_ok(d, fault)
       THEN [game |-> h, stage |-> "read", engine0 |-> h.engine]
       ELSE LET g1 == destroy_level(h)
            IN IF fault = "engine"
               THEN [game |-> g1, stage |-> "engine", engine0 |-> g1.engine]
               ELSE LET g2 == engine_visit_read(g1, d.tree)
                    IN IF fault = "level"
                       THEN [game |-> g2, stage |-> "level", engine0 |-> g1.engine]
                       ELSE [game |-> level_visit_read(g2, d.tree),
                             stage |-> "ok", engine0 |-> g1.engine]

load_game(g, d, fault) ==
    IF ~load_binary_ok(d, fault)
    THEN [game |-> g, stage |-> "read", engine0 |-> g.engine]
    ELSE LET g1 == destroy_level(g)
         IN IF fault = "engine"
            THEN [game |-> g1, stage |-> "engine", engine0 |-> g1.engine]
            ELSE LET g2 == engine_visit_read(g1, d.tree)
                 IN IF fault = "level"
                    THEN [game |-> g2, stage |-> "level", engine0 |-> g1.engine]
                    ELSE [game |-> set_menu_visible(level_visit_read(g2, d.tree), FALSE),
                          stage |-> "ok", engine0 |-> g1.engine]

\* ------------------------------------------------------ command handlers
\* Menu::process_ui_event: the menu handler marks an event it recognizes.
menu_process_ui_event(event, recognizes) ==
    [event EXCEPT !.handled = @ \/ recognizes]

process_ui_event_quit_keeps_level(g, d, event, sfault, lfault) ==
    LET none == [game |-> g, disk |-> d, fired |-> <<>>, handled |-> event.handled,
                 panic |-> FALSE, stage |-> "-", engine0 |-> g.engine]
    IN IF event.kind # "Click" THEN none
       ELSE IF event.source = "btn_new_game"
       THEN [none EXCEPT !.game = start_new_game(g), !.fired = <<"new">>,
                         !.handled = TRUE]
       ELSE IF event.source = "btn_save_game"
       THEN LET r == save_game(g, d, sfault)
            IN [none EXCEPT !.disk = r.disk, !.fired = <<"save">>,
                            !.handled = ~r.panic, !.panic = r.panic,
                            !.stage = IF r.ok THEN "ok" ELSE sfault]
       ELSE IF event.source = "btn_load_game"
       THEN LET r == load_game(g, d, lfault)
            IN [none EXCEPT !.game = r.game, !.fired = <<"load">>,
                            !.handled = TRUE, !.stage = r.stage,
                            !.engine0 = r.engine0]
       ELSE IF event.source = "btn_quit_game"
       THEN [none EXCEPT !.game = [g EXCEPT !.running = FALSE],
                         !.fired = <<"quit">>, !.handled = TRUE]
       ELSE none

\* Game::process_ui_event.  `fired` lists the commands the handler invoked.
process_ui_event(g, d, event, sfault, lfault) ==
    LET none == [game |-> g, disk |-> d, fired |-> <<>>, handled |-> event.handled,
                 panic |-> FALSE, stage |-> "-", engine0 |-> g.engine]
    IN IF event.kind # "Click" THEN none
       ELSE IF event.source = "btn_new_game"
       THEN [none EXCEPT !.game = start_new_game(g), !.fired = <<"new">>,
                         !.handled = TRUE]
       ELSE IF event.source = "btn_save_game"
       THEN LET r == save_game(g, d, sfault)
            IN [none EXCEPT !.disk = r.disk, !.fired = <<"save">>,
                            !.handled = ~r.panic, !.panic = r.panic,
                            !.stage = IF r.ok THEN "ok" ELSE sfault]
       ELSE IF event.source = "btn_load_game"
       THEN LET r == load_game(g, d, lfault)
            IN [none EXCEPT !.game = r.game, !.fired = <<"load">>,
                            !.handled = TRUE, !.stage = r.stage,
                            !.engine0 = r.engine0]
       ELSE IF event.source = "btn_quit_game"
       THEN [none EXCEPT !.game = [destroy_level(g) EXCEPT !.running = FALSE],
                         !.fired = <<"quit">>, !.handled = TRUE]
       ELSE none

\* -------------------------------------------------------- input handlers
\* Game::process_dispatched_event: the consumers that observe the event, in
\* order.  `consumed` is what ui.process_input_event returned, `has_player`
\* whether level.get_player_mut() returned a player.
process_dispatched_event_always(g, consumed, has_player) ==
    <<"ui">> \o (IF g.level = "Some" /\ has_player THEN <<"player">> ELSE <<>>)

process_dispatched_event(g, consumed, has_player) ==
    <<"ui">> \o (IF ~consumed /\ g.level = "Some" /\ has_player
                 THEN <<"player">> ELSE <<>>)

\* Game::process_input_event: the new Game and the consumers that saw the event.
process_input_event_anystate(g, ev, consumed, has_player) ==
    IF ev \in WindowEvents
    THEN [game |-> IF ev = "Close" THEN [g EXCEPT !.running = FALSE]
                   ELSE IF ev \in {"EscDown", "EscUp"}
                   THEN set_menu_visible(g, ~is_menu_visible(g))
                   ELSE g,
          seen |-> process_dispatched_event(g, consumed, has_player) \o <<"menu">>]
    ELSE [game |-> g, seen |-> <<>>]

process_input_event_unconsumed(g, ev, consumed, has_player) ==
    IF ev \in WindowEvents
    THEN [game |-> IF consumed THEN g
                   ELSE IF ev = "Close" THEN [g EXCEPT !.running = FALSE]
                   ELSE IF ev = "EscDown"
                   THEN set_menu_visible(g, ~is_menu_visible(g))
                   ELSE g,
          seen |-> process_dispatched_event(g, consumed, has_player) \o <<"menu">>]
    ELSE [game |-> g, seen |-> <<>>]

process_input_event(g, ev, consumed, has_player) ==
    IF ev \in WindowEvents
    THEN [game |-> IF ev = "Close" THEN [g EXCEPT !.running = FALSE]
                   ELSE IF ev = "EscDown"
                   THEN set_menu_visible(g, ~is_menu_visible(g))
                   ELSE g,
          seen |-> process_dispatched_event(g, consumed, has_player) \o <<"menu">>]
    ELSE [game |-> g, seen |-> <<>>]

\* ------------------------------------------------------------- the loop
\* limit_fps(value) called at wall-clock time t: the new Game and the sleep.
limit_fps(g, t) ==
    LET render_call_duration == t - g.last_tick_time
    IN [game |-> [g EXCEPT !.last_tick_time = t],
        sleep |-> IF render_call_duration < Frame
                  THEN Frame - render_call_duration ELSE 0]

\* The condition of the catch-up loop, `while dt >= fixed_timestep`.
CatchUp_strict(d) == d > Delta

CatchUp(d) == d >= Delta

\* Where run() stands inside a step: the loop over `events` runs until the
\* deque is empty, then the loop over poll_ui_event() runs until the UI queue
\* is empty, then update() is called.
DispatchPhase_ui_first(ev, uq) ==
    IF uq # <<>> THEN "ui" ELSE IF ev # <<>> THEN "os" ELSE "update"

DispatchPhase_skip_ui(ev, uq) ==
    IF ev # <<>> THEN "os" ELSE "update"

DispatchPhase(ev, uq) ==
    IF ev # <<>> THEN "os" ELSE IF uq # <<>> THEN "ui" ELSE "update"

\* ui.process_input_event(event): whether the UI consumed the event and the
\* UI events it queued (a consumed mouse event queues one).
UIOutcomes(ev) ==
    {[consumed |-> FALSE, emitted |-> <<>>]}
    \cup (IF ev = "Mouse"
          THEN {[consumed |-> TRUE, emitted |-> <<[kind |-> u.kind, source |-> u.source,
                                                   handled |-> FALSE]>>] : u \in UIEvents}
          ELSE {[consumed |-> TRUE, emitted |-> <<>>]})

Init ==
    /\ game = [running |-> TRUE, level |-> "None", menu_visible |-> TRUE,
               engine |-> 0, last_tick_time |-> 0, live |-> 0, peak |-> 0]
    /\ game_time = [elapsed |-> 0, delta |-> Delta]
    /\ dt = 0
    /\ now = 0
    /\ sample = 0
    /\ events = <<>>
    /\ ui_events = <<>>
    /\ disk = [txt |-> "absent", bin |-> "absent", tree |-> NoTree]
    /\ pc = "loop"
    /\ obs = [updates |-> 0, presses |-> 0, base |-> TRUE,
              backlog |-> 0, passUpdates |-> 0, passRenders |-> 0,
              stopUpdates |-> 0, stopRenders |-> 0]
    /\ last = NoLast

\* `while self.running`: sample the clock and compute the backlog.
OuterLoop ==
    /\ pc = "loop"
    /\ game.running
    /\ now <= MaxClock
    /\ sample' = now
    /\ dt' = now - game_time.elapsed
    /\ pc' = "step"
    /\ obs' = [obs EXCEPT !.backlog = now - game_time.elapsed,
                          !.passUpdates = 0, !.passRenders = 0]
    /\ last' = [NoLast EXCEPT !.op = "sample"]
    /\ UNCHANGED <<game, game_time, now, events, ui_events, disk>>

Exit_nodestroy ==
    /\ pc = "loop"
    /\ ~game.running
    /\ pc' = "done"
    /\ last' = [NoLast EXCEPT !.op = "exit", !.levelPre = game.level]
    /\ UNCHANGED <<game, game_time, dt, now, sample, events, ui_events, disk, obs>>

\* The stop flag was raised: leave the loop, destroy the level, return.
Exit ==
    /\ pc = "loop"
    /\ ~game.running
    /\ game' = destroy_level(game)
    /\ pc' = "done"
    /\ last' = [NoLast EXCEPT !.op = "exit", !.levelPre = game.level]
    /\ UNCHANGED <<game_time, dt, now, sample, events, ui_events, disk, obs>>

\* One more fixed step: take it off the backlog, advance the simulated
\* clock and poll the OS events that arrived.
BeginStep ==
    /\ pc = "step"
    /\ CatchUp(dt)
    /\ dt' = dt - Delta
    /\ game_time' = [game_time EXCEPT !.elapsed = @ + Delta]
    /\ \E batch \in SeqsUpTo(OSEvents, MaxBatch) :
          /\ events' = events \o batch
          /\ pc' = DispatchPhase(events', ui_events)
    /\ last' = [NoLast EXCEPT !.op = "advance"]
    /\ UNCHANGED <<game, now, sample, ui_events, disk, obs>>

\* One iteration of `while let Some(event) = events.pop_front()`.
ProcessInputEvent ==
    /\ pc = "os"
    /\ events # <<>>
    /\ LET ev == Head(events)
       IN \E ui \in (IF ev \in WindowEvents THEN UIOutcomes(ev)
                     ELSE {[consumed |-> FALSE, emitted |-> <<>>]}) :
          \E has_player \in (IF ev \in WindowEvents /\ game.level = "Some"
                             THEN BOOLEAN ELSE {FALSE}) :
             LET r == process_input_event(game, ev, ui.consumed, has_player)
             IN /\ game' = r.game
                /\ events' = Tail(events)
                /\ ui_events' = ui_events \o ui.emitted
                /\ pc' = DispatchPhase(events', ui_events')
                /\ obs' = IF ev = "EscDown" THEN [obs EXCEPT !.presses = @ + 1] ELSE obs
                /\ last' = [NoLast EXCEPT !.op = "os", !.ev = ev,
                                          !.consumed = ui.consumed,
                                          !.hadLevel = (game.level = "Some"),
                                          !.hadPlayer = has_player,
                                          !.seen = r.seen,
                                          !.menuPre = game.menu_visible]
    /\ UNCHANGED <<game_time, dt, now, sample, disk>>

\* One iteration of `while let Some(mut ui_event) = ...poll_ui_event()`:
\* the menu handler, then Game::process_ui_event.
ProcessUIEvent ==
    /\ pc = "ui"
    /\ ui_events # <<>>
    /\ LET e == Head(ui_events)
           isSave == e.kind = "Click" /\ e.source = "btn_save_game"
           isLoad == e.kind = "Click" /\ e.source = "btn_load_game"
       IN \E recognizes \in BOOLEAN :
          \E sfault \in (IF isSave THEN SaveFaults ELSE {"none"}) :
          \E lfault \in (IF isLoad THEN LoadFaults ELSE {"none"}) :
             LET m == menu_process_ui_event(e, recognizes)
                 r == process_ui_event(game, disk, m, sfault, lfault)
                 wrote == r.fired = <<"new">> \/ (r.fired = <<"load">> /\ r.stage = "ok")
             IN /\ r.game.engine <= MaxScenes
                /\ game' = r.game
                /\ disk' = r.disk
                /\ ui_events' = Tail(ui_events)
                /\ pc' = IF r.panic THEN "panic" ELSE DispatchPhase(events, ui_events')
                /\ obs' = IF wrote THEN [obs EXCEPT !.presses = 0, !.base = FALSE] ELSE obs
                /\ last' = [NoLast EXCEPT !.op = "cmd", !.src = e.source,
                                          !.kind = e.kind,
                                          !.menuHandled = m.handled,
                                          !.handled = r.handled,
                                          !.fired = r.fired,
                                          !.stage = r.stage,
                                          !.levelPre = game.level,
                                          !.menuPre = game.menu_visible,
                                          !.engine0 = r.engine0]
    /\ UNCHANGED <<game_time, dt, now, sample, events>>

\* What update() adds to the counters.
Updated(o, g) ==
    [o EXCEPT !.updates = @ + 1, !.passUpdates = @ + 1,
              !.stopUpdates = IF g.running THEN @ ELSE @ + 1]

Update_abort ==
    /\ pc = "update"
    /\ obs' = Updated(obs, game)
    /\ pc' = IF game.running THEN "step" ELSE "loop"
    /\ last' = [NoLast EXCEPT !.op = "update", !.delta = game_time.delta,
                              !.hadLevel = (game.level = "Some")]
    /\ UNCHANGED <<game, game_time, dt, now, sample, events, ui_events, disk>>

\* self.update(&game_time): the level and the engine advance by time.delta.
Update ==
    /\ pc = "update"
    /\ obs' = Updated(obs, game)
    /\ pc' = "step"
    /\ last' = [NoLast EXCEPT !.op = "update", !.delta = game_time.delta,
                              !.hadLevel = (game.level = "Some")]
    /\ UNCHANGED <<game, game_time, dt, now, sample, events, ui_events, disk>>

\* What a call of render() adds to the counters.
Rendered(o, g) ==
    [o EXCEPT !.passRenders = @ + 1,
              !.stopRenders = IF g.running THEN @ ELSE @ + 1]

Render_early ==
    /\ pc = "step"
    /\ \E cost \in 0..MaxWork :
          /\ now + cost <= MaxClock
          /\ now' = now + cost
    /\ \E ok \in BOOLEAN :
          /\ pc' = IF ok THEN "limit" ELSE "panic"
          /\ last' = [NoLast EXCEPT !.op = IF ok THEN "render" ELSE "render_failed"]
    /\ obs' = Rendered(obs, game)
    /\ UNCHANGED <<game, game_time, dt, sample, events, ui_events, disk>>

Render_ignore_error ==
    /\ pc = "step"
    /\ ~CatchUp(dt)
    /\ \E cost \in 0..MaxWork :
          /\ now + cost <= MaxClock
          /\ now' = now + cost
    /\ \E ok \in BOOLEAN :
          /\ pc' = IF ok THEN "limit" ELSE "limit"
          /\ last' = [NoLast EXCEPT !.op = IF ok THEN "render" ELSE "render_failed"]
    /\ obs' = Rendered(obs, game)
    /\ UNCHANGED <<game, game_time, dt, sample, events, ui_events, disk>>

\* The backlog is below one step: update_statistics, then render, which
\* takes some wall-clock time and either succeeds or fails (unwrap panics).
Render ==
    /\ pc = "step"
    /\ ~CatchUp(dt)
    /\ \E cost \in 0..MaxWork :
          /\ now + cost <= MaxClock
          /\ now' = now + cost
    /\ \E ok \in BOOLEAN :
          /\ pc' = IF ok THEN "limit" ELSE "panic"
          /\ last' = [NoLast EXCEPT !.op = IF ok THEN "render" ELSE "render_failed"]
    /\ obs' = Rendered(obs, game)
    /\ UNCHANGED <<game, game_time, dt, sample, events, ui_events, disk>>

\* self.limit_fps(fixed_fps): sleep what is left of the frame period.
LimitFps ==
    /\ pc = "limit"
    /\ LET r == limit_fps(game, now)
       IN /\ game' = r.game
          /\ now' = now + r.sleep
    /\ pc' = "loop"
    /\ last' = [NoLast EXCEPT !.op = "limit", !.work = now - sample,
                              !.sleep = limit_fps(game, now).sleep]
    /\ UNCHANGED <<game_time, dt, sample, events, ui_events, disk, obs>>

Next ==
    \/ OuterLoop
    \/ Exit
    \/ BeginStep
    \/ ProcessInputEvent
    \/ ProcessUIEvent
    \/ Update
    \/ Render
    \/ LimitFps

Spec == Init /\ [][Next]_vars

\* run() is one thread that is never suspended for good: whenever it has a
\* next instruction it eventually executes it.
FairSpec == Spec /\ WF_vars(Next)

TypeOK ==
    /\ game.level \in {"None", "Some"}
    /\ pc \in {"loop", "step", "os", "ui", "update", "limit", "done", "panic"}
    /\ game_time.elapsed \in 0..(MaxClock + Frame)

\* ================================================================ claims
IsLoad == last.op = "cmd" /\ last.fired = <<"load">>
LoadFailed == IsLoad /\ last.stage \in {"read", "engine", "level"}

\* C1 (as stated): after a load() that fails at any stage - reading save.bin,
\* restoring the Engine state or restoring the Level state - the application
\* has no active session.
C1_FailedLoadLeavesNoSession ==
    LoadFailed => game.level = "None"

\* C1 (amended): load() reads save.bin first and destroys the session only
\* once the read succeeded: a load that fails while restoring the Engine or
\* the Level state leaves no session (its teardown was called), a load that
\* fails reading save.bin leaves the session and the engine as they were.
C1_LoadDestroysAfterRead ==
    /\ (IsLoad /\ last.stage \in {"engine", "level"})
          => (game.level = "None" /\ game.live = 0)
    /\ (IsLoad /\ last.stage = "read")
          => (game.level = last.levelPre /\ game.engine = last.engine0)

C1_Witness ==
    IsLoad /\ last.stage = "read" /\ last.levelPre = "Some" /\ game.level = "Some"

C1_WitnessRestoreFailed ==
    IsLoad /\ last.stage = "level" /\ last.levelPre = "Some" /\ game.level = "None"

\* C2: if load() fails at any stage, none of the loaded state has been applied:
\* the live Engine state is what it was when the restore began.
C2_FailedLoadAppliesNothing ==
    LoadFailed => game.engine = last.engine0

\* C3: at most one session exists at any time, also in the middle of a
\* command, and a session is replaced or removed only by its teardown: the
\* Level instances constructed and not torn down are exactly the held one.
C3_SingleSession ==
    /\ game.live <= 1
    /\ game.peak <= 1
    /\ game.live = (IF game.level = "Some" THEN 1 ELSE 0)

C3_Witness ==
    /\ last.op = "cmd" /\ last.fired = <<"new">>
    /\ last.levelPre = "Some"
    /\ game.level = "Some" /\ game.live = 1

InSeq(x, sq) == \E i \in 1..Len(sq) : sq[i] = x

PlayerGetsIt == ~last.consumed /\ last.hadLevel /\ last.hadPlayer

\* C4 (as stated): for every OS event the UI layer is offered the event first,
\* and the session's input handler observes it iff the UI did not consume it
\* and a session with a player exists.
C4_EveryEventOfferedToUI ==
    last.op = "os" =>
        /\ last.seen # <<>>
        /\ Head(last.seen) = "ui"
        /\ InSeq("player", last.seen) <=> PlayerGetsIt

\* C4 (amended): for every OS window event the UI layer is offered the event
\* first and the session's input handler observes it iff the UI did not
\* consume it and a session with a player exists; an OS event that is not a
\* window event is offered to nobody.
C4_WindowEventOfferedToUI ==
    last.op = "os" =>
        IF last.ev \in WindowEvents
        THEN /\ last.seen # <<>>
             /\ Head(last.seen) = "ui"
             /\ InSeq("player", last.seen) <=> PlayerGetsIt
             /\ last.consumed => ~InSeq("player", last.seen)
        ELSE last.seen = <<>>

C4_Witness ==
    /\ last.op = "os" /\ last.ev = "Mouse"
    /\ last.consumed /\ last.hadLevel /\ last.hadPlayer
    /\ ~InSeq("player", last.seen)

\* C5: the global reactions apply to every window event whatever the UI or the
\* session did with it: a close request leaves running = false, a key-down of
\* Escape flips the menu visibility, and no other event changes it.
C5_GlobalReactions ==
    last.op = "os" =>
        /\ last.ev = "Close" => ~game.running
        /\ last.ev = "EscDown" => game.menu_visible = ~last.menuPre
        /\ last.ev # "EscDown" => game.menu_visible = last.menuPre

C5_Witness ==
    /\ last.op = "os" /\ last.ev = "EscDown" /\ last.consumed
    /\ game.menu_visible = ~last.menuPre

Flipped(b, n) == IF n % 2 = 0 THEN b ELSE ~b

\* C6: each press of the menu-toggle key flips the menu visibility exactly
\* once: after n presses since the visibility was last set by a command (or by
\* construction) it is that value flipped n times.
C6_TogglePerPress ==
    game.menu_visible = Flipped(obs.base, obs.presses)

C6_Witness ==
    /\ obs.base = FALSE /\ obs.presses = 2
    /\ last.op = "os" /\ last.ev = "EscDown"
    /\ ~game.menu_visible

\* C7: once the menu handler has set handled = true on a command event, the
\* application handler does not act on it: no start/save/load/quit is fired.
C7_HandledSuppresses ==
    (last.op = "cmd" /\ last.menuHandled) => last.fired = <<>>

IsPrefix(p, q) == Len(p) <= Len(q) /\ SubSeq(q, 1, Len(p)) = p

\* C8: every queued OS event and every queued command event is dispatched
\* exactly once and in FIFO order (each dispatch takes the head of its queue,
\* and nothing but a poll or the UI adds to a queue's tail), both queues are
\* empty when update is invoked, and one command event fires at most one
\* command, once.
C8_Step ==
    /\ pc = "os" => /\ events # <<>>
                    /\ events' = Tail(events)
                    /\ last'.op = "os" /\ last'.ev = Head(events)
                    /\ IsPrefix(ui_events, ui_events')
    /\ pc = "ui" => /\ ui_events # <<>>
                    /\ ui_events' = Tail(ui_events)
                    /\ events' = events
                    /\ last'.op = "cmd" /\ last'.src = Head(ui_events).source
                    /\ Len(last'.fired) <= 1
                    /\ last'.fired # <<>> =>
                          (last'.kind = "Click" /\ last'.src \in Buttons)
    /\ pc \notin {"os", "ui"} => /\ IsPrefix(events, events')
                                 /\ ui_events' = ui_events
    /\ pc' = "update" => (events' = <<>> /\ ui_events' = <<>>)

C8_DispatchOnce == [][C8_Step]_vars

C8_Witness ==
    /\ pc = "update" /\ last.op = "cmd" /\ Len(last.fired) = 1
    /\ events = <<>> /\ ui_events = <<>>

\* C9: at the end of each catch-up pass elapsed = updates x delta and
\* 0 <= sample - elapsed < delta; every update receives the fixed delta; and
\* nothing changes elapsed but the per-step increment by delta.
C9_PassEnd ==
    /\ game_time.delta = Delta
    /\ last.op = "update" => last.delta = Delta
    /\ last.op \in {"render", "render_failed"} =>
          /\ game_time.elapsed = obs.updates * Delta
          /\ 0 <= sample - game_time.elapsed
          /\ sample - game_time.elapsed < Delta

C9_ElapsedStep ==
    game_time' # game_time =>
        /\ pc = "step" /\ last'.op = "advance"
        /\ game_time' = [game_time EXCEPT !.elapsed = @ + Delta]

C9_FixedTimestep == []C9_PassEnd /\ [][C9_ElapsedStep]_vars

C9_Witness ==
    /\ last.op = "render" /\ obs.updates = 1
    /\ sample = 3 /\ game_time.elapsed = Delta

\* C10: within one step the order is advance, OS events, command events,
\* update; render follows the update of the last step of the pass (or the
\* sample, when the pass has no step); no OS event follows a command event
\* of the same step and nothing is dispatched between an update and a render.
C10_Order ==
    /\ last'.op = "advance" => last.op \in {"sample", "update"}
    /\ last'.op = "os" => last.op \in {"advance", "os"}
    /\ last'.op = "cmd" => last.op \in {"advance", "os", "cmd"}
    /\ last'.op = "update" => last.op \in {"advance", "os", "cmd"}
    /\ last'.op \in {"render", "render_failed"} => last.op \in {"sample", "update"}

C10_StepOrder == [][C10_Order]_vars

C10_Witness ==
    /\ last.op = "render" /\ obs.updates = 1
    /\ game.level = "Some" /\ ~game.running

PassComplete ==
    /\ obs.passUpdates * Delta <= obs.backlog
    /\ obs.backlog < (obs.passUpdates + 1) * Delta

\* C11: each iteration of the outer loop calls render exactly once, after the
\* catch-up loop: a sampled backlog of k whole steps gives exactly k updates
\* with no render among them, then one render.
C11_RenderOncePerPass ==
    /\ obs.passRenders <= 1
    /\ pc \in {"os", "ui", "update"} => obs.passRenders = 0
    /\ last.op \in {"advance", "update"} => obs.passRenders = 0
    /\ last.op \in {"render", "render_failed", "limit"} =>
          (obs.passRenders = 1 /\ PassComplete)

C11_Witness ==
    /\ last.op = "render" /\ obs.backlog = 2 * Delta
    /\ obs.passUpdates = 2 /\ obs.passRenders = 1

\* C12: in every iteration, if the work of the iteration takes less than the
\* target frame period then work plus sleep equals the period, and if it
\* takes at least the period the sleep is zero; the sleep is never negative.
C12_FpsCap ==
    last.op = "limit" =>
        /\ last.sleep >= 0
        /\ last.work < Frame => last.work + last.sleep = Frame
        /\ last.work >= Frame => last.sleep = 0

IsSave == last.op = "cmd" /\ last.fired = <<"save">>

\* C13: save() never aborts the program: whatever fails, the command handler
\* goes on and marks the event handled.
C13_SaveNeverAborts ==
    IsSave => (pc # "panic" /\ last.handled)

\* C14: save() writes neither artifact unless the Engine and the Level region
\* have both been visited, and, succeeding or failing, it leaves the session,
\* the menu visibility and the stop flag (the whole Game) unchanged.
C14_Step ==
    (pc = "ui" /\ last'.op = "cmd" /\ last'.fired = <<"save">>) =>
        /\ game' = game
        /\ last'.stage \in {"engine", "level"} => disk' = disk

C14_SaveFrame == [][C14_Step]_vars

C14_Witness ==
    /\ IsSave /\ last.stage = "level"
    /\ game.level = "Some"
    /\ disk.txt = "absent" /\ disk.bin = "absent"

\* C15: a render failure is fatal: after a failed render nothing more is
\* executed - no step, dispatch, command, render or sleep.
C15_RenderFailureFatal == [][last.op # "render_failed"]_vars

C15_Witness ==
    /\ last.op = "render_failed" /\ pc = "panic"
    /\ obs.updates = 1 /\ game.running

IsQuit == last.op = "cmd" /\ last.fired = <<"quit">>

\* C16: quit leaves no session, its teardown called, and the stop flag raised;
\* it does not change the menu visibility.
C16_Quit ==
    IsQuit =>
        /\ game.level = "None" /\ game.live = 0
        /\ ~game.running
        /\ game.menu_visible = last.menuPre

C16_Witness ==
    IsQuit /\ last.levelPre = "Some" /\ game.level = "None" /\ last.menuPre

\* C17: the menu is hidden after every start-new-session command and after
\* every successful load; a failed load leaves the visibility as it was.
C17_MenuAfterCommand ==
    /\ (last.op = "cmd" /\ last.fired = <<"new">>) => ~game.menu_visible
    /\ (IsLoad /\ last.stage = "ok") => ~game.menu_visible
    /\ LoadFailed => game.menu_visible = last.menuPre

C17_Witness ==
    IsLoad /\ last.stage = "level" /\ last.menuPre /\ game.menu_visible

C17_WitnessLoaded ==
    IsLoad /\ last.stage = "ok" /\ last.menuPre /\ ~game.menu_visible

\* C18: once the stop flag has been raised run() eventually returns, unless a
\* render fails.
C18_StopLeadsToReturn ==
    (~game.running) ~> (pc = "done" \/ last.op = "render_failed")

\* The stop flag is one-way, and a raised flag leads to the end of run():
\* its return or a panic.
StopIsOneWay == [][~game.running => ~game'.running]_vars

StopLeadsToEnd == (~game.running) ~> (pc \in {"done", "panic"})

\* C19: when run() returns no session exists and the teardown of the last
\* one has been called, whatever was processed after the stop flag was raised.
C19_NoSessionAtReturn ==
    pc = "done" => (game.level = "None" /\ game.live = 0)

C19_Witness ==
    /\ pc = "done" /\ last.op = "exit"
    /\ last.levelPre = "Some" /\ game.level = "None"

\* C20: the stop flag is examined only at the top of the outer loop: raising
\* it inside a pass does not abort the pass - the queues of the current step
\* are drained, its update and those of the remaining backlog run, and
\* exactly one more render is called before run() returns.
C20_PassFinishes ==
    /\ (~game.running /\ pc = "update") => (events = <<>> /\ ui_events = <<>>)
    /\ (~game.running /\ last.op \in {"render", "render_failed", "limit"}) =>
          (obs.stopRenders = 1 /\ PassComplete)
    /\ pc = "done" => (obs.stopRenders = 1 /\ obs.stopUpdates >= 1)

C20_ReturnFromTop == (pc' = "done" /\ pc # "done") => (pc = "loop" /\ ~game.running)

C20_StopAtLoopTop == []C20_PassFinishes /\ [][C20_ReturnFromTop]_vars

C20_Witness ==
    /\ pc = "done"
    /\ obs.stopUpdates = 2 /\ obs.stopRenders = 1

====
